---- MODULE Spec2Model ----
(***************************************************************************)
(* A model of src/main.cpp: the start-up sequence, the render loop with    *)
(* its per-chunk frustum cull and per-block face culling, the GLFW         *)
(* callbacks (mouse, scroll), processInput and the teardown.               *)
(*                                                                         *)
(* Numbers of type float are IEEE-754 binary32 values with the arithmetic   *)
(* of the hardware (round to nearest, ties to even).  The GLM functions the *)
(* program calls (radians, normalize, cross, lookAt, perspective,           *)
(* mat4 * mat4, mat4 * vec4) are modelled by their definitions in GLM       *)
(* (right-handed, depth range -1..1), operation by operation.               *)
(***************************************************************************)
EXTENDS Integers, Sequences, FiniteSets, TLC

VARIABLES
    \* main(): control position, result, output streams
    pc, exitCode, stdout, stderr,
    \* the window system (GLFW) and the GL objects
    glfwLive, shouldClose, cursorMode, monitor, polygonMode, keys, title,
    glObjects, teardowns,
    \* the display-mode changes made since the Enter key last changed
    enterToggles,
    \* camera globals (src/main.cpp:21-34)
    cameraPos, cameraFront, yaw, pitch, lastX, lastY, fov, firstMouse,
    deltaTime, lastFrame,
    \* locals of the render loop
    view, projection, chunkY, chunk, boundVAO, total_rendered_blocks,
    drawCalls, frameLog, frames,
    \* statics of statsTracker
    previousSeconds, frameCount, lastFps,
    \* the environment: the clock, the numbers of input events and of frames
    \* still to come, and the last event delivered
    now, budget, frameBudget, event,
    \* the block loop (cursor into the chunk) and the draw calls it issued
    gridS, bx, by, bz, glCalls,
    \* one call of isChunkInViewFrustum: its arguments and its result
    fr

vars == << pc, exitCode, stdout, stderr, glfwLive, shouldClose, cursorMode,
           monitor, polygonMode, keys, title, glObjects, teardowns,
           cameraPos, cameraFront, yaw, pitch, lastX, lastY, fov, firstMouse,
           deltaTime, lastFrame, view, projection, chunkY, chunk, boundVAO,
           total_rendered_blocks, drawCalls, frameLog, frames,
           previousSeconds, frameCount, lastFps, now, budget, frameBudget,
           event, enterToggles, gridS, bx, by, bz, glCalls, fr >>

cameraVars == << cameraPos, cameraFront, yaw, pitch, lastX, lastY, fov,
                 firstMouse >>

blockVars == << gridS, bx, by, bz, glCalls >>

-----------------------------------------------------------------------------
(* Values of type double (the clock glfwGetTime and the statics of          *)
(* statsTracker) are fixed-point integers in units of 1/Q (four decimals);  *)
(* Fx(n, d) is the value n/d.                                               *)

Q100 == 100
Q == Q100 * Q100

Fx(n, d) == (n * Q) \div d

FDivPos(a, b) ==
    LET q  == a \div b
        r  == a % b
        h  == (r * Q100) \div b
        r2 == (r * Q100) % b
    IN  q * Q + h * Q100 + (r2 * Q100) \div b

\* a / b
FDiv(a, b) == IF b < 0 THEN FDivPos(-a, -b) ELSE FDivPos(a, b)

-----------------------------------------------------------------------------
(* IEEE-754 binary32 arithmetic.  A float is << m, e >> with value m * 2^e, *)
(* where m = 0 (and e = 0) or 2^23 <= |m| < 2^24; every operation rounds    *)
(* its exact result to the nearest float, ties to the even mantissa.  The   *)
(* program's values stay far from the overflow and subnormal ranges, which  *)
(* are not modelled; -0.0 and +0.0 are one value.                           *)

Pow2Tab ==
    << 1, 2, 4, 8, 16, 32, 64, 128, 256, 512, 1024, 2048, 4096, 8192, 16384,
       32768, 65536, 131072, 262144, 524288, 1048576, 2097152, 4194304,
       8388608, 16777216, 33554432, 67108864, 134217728, 268435456,
       536870912, 1073741824 >>
Pow2(k) == Pow2Tab[k + 1]

\* the element of a one-element set: { F(v) : v \in { e } } evaluates the
\* operand e before the operation F, as a C++ call evaluates its arguments
Val(S) == CHOOSE v \in S : TRUE

Zero == << 0, 0 >>
One == << 8388608, -23 >>
Two == << 8388608, -22 >>

Abs(x) == IF x < 0 THEN -x ELSE x
Sgn(x) == IF x < 0 THEN -1 ELSE 1

\* q with remainder r out of 2 * half, rounded to nearest, ties to even
RNE(q, r, half) == IF r > half \/ (r = half /\ q % 2 = 1) THEN q + 1 ELSE q

\* the float of sign s and mantissa M <= 2^24
Pack(s, M, e) ==
    IF M = 16777216 THEN << s * 8388608, e + 1 >> ELSE << s * M, e >>

MulF(a, b) ==
    LET \* a * b: the 48-bit product of the mantissas is formed from 12-bit halves
        \* as H * 2^24 + L, then rounded to 24 bits
        MulRound(s, H, L, e) ==
            IF H >= 8388608 THEN Pack(s, RNE(H, L, 8388608), e + 24)
            ELSE Pack(s, RNE(2 * H + L \div 8388608, L % 8388608, 4194304), e + 23)
        MulCarry(s, H0, L0, e) ==
            MulRound(s, H0 + L0 \div 16777216, L0 % 16777216, e)
        MulSum(s, hi, mid, lo, e) ==
            MulCarry(s, hi + mid \div 4096, (mid % 4096) * 4096 + lo, e)
        MulParts(s, xh, xl, yh, yl, e) ==
            MulSum(s, xh * yh, xh * yl + xl * yh, xl * yl, e)
        MulMag(s, x, y, e) ==
            MulParts(s, x \div 4096, x % 4096, y \div 4096, y % 4096, e)
    IN
        IF a[1] = 0 \/ b[1] = 0 THEN Zero
        ELSE MulMag(Sgn(a[1]) * Sgn(b[1]), Abs(a[1]), Abs(b[1]), a[2] + b[2])

\* a + b: the operand of smaller exponent is shifted right with three guard
\* bits, the lowest of them sticky; the sum is renormalised and rounded
Sticky(q, r) == IF r # 0 /\ q % 2 = 0 THEN q + 1 ELSE q
ShiftSticky(M, d) == Sticky(M \div Pow2(d), M % Pow2(d))
NormRound(s, M, e) == Pack(s, RNE(M \div 8, M % 8, 4), e + 3)
\* M is shifted left by 16, 8, 4, 2 and 1 bits as long as it stays below 2^27
RECURSIVE NormMag(_, _, _, _)
NormMag(s, M, e, k) ==
    IF k = 0 THEN NormRound(s, M, e)
    ELSE IF M < Pow2(27 - k) THEN NormMag(s, M * Pow2(k), e - k, k \div 2)
    ELSE NormMag(s, M, e, k \div 2)
Norm(S, e) ==
    LET \* M is shifted right, the lowest bit sticky, until it is below 2^27
        RECURSIVE NormDown(_, _, _)
        NormDown(s, M, e0) ==
            IF M >= 134217728 THEN NormDown(s, Sticky(M \div 2, M % 2), e0 + 1)
            ELSE NormRound(s, M, e0)
    IN
        IF S = 0 THEN Zero
        ELSE IF Abs(S) >= 134217728 THEN NormDown(Sgn(S), Abs(S), e)
        ELSE NormMag(Sgn(S), Abs(S), e, 16)
AddF(a, b) ==
    LET AddOrdered(a0, b0, d) ==
            IF d >= 27 THEN a0
            ELSE Norm(a0[1] * 8 + Sgn(b0[1]) * ShiftSticky(Abs(b0[1]) * 8, d), a0[2] - 3)
    IN
        IF a[1] = 0 THEN b
        ELSE IF b[1] = 0 THEN a
        ELSE IF a[2] >= b[2] THEN AddOrdered(a, b, a[2] - b[2])
        ELSE AddOrdered(b, a, b[2] - a[2])
NegF(a) == << -a[1], a[2] >>
SubF(a, b) == AddF(a, NegF(b))
AbsF(a) == << Abs(a[1]), a[2] >>

DivF(a, b) ==
    LET \* a / b by long division, 6 quotient bits a step
        DivRound(s, q, r, B, e) ==
            IF q >= 16777216
            THEN Pack(s, RNE(q \div 2, (q % 2) * 2 + (IF r # 0 THEN 1 ELSE 0), 2), e + 1)
            ELSE Pack(s, RNE(q, 2 * r, B), e)
        RECURSIVE DivSteps(_, _, _, _, _, _)
        DivSteps(s, q, r, B, e, n) ==
            IF n = 0 THEN DivRound(s, q, r, B, e)
            ELSE DivSteps(s, q * 64 + (r * 64) \div B, (r * 64) % B, B, e, n - 1)
    IN
        IF a[1] = 0 THEN Zero
        ELSE DivSteps(Sgn(a[1]) * Sgn(b[1]), Abs(a[1]) \div Abs(b[1]),
                      Abs(a[1]) % Abs(b[1]), Abs(b[1]), a[2] - b[2] - 24, 4)

SqrtF(a) ==
    LET \* sqrt(a), 0 <= a: the square root of m * 2^22 (m of 25 or 26 bits, the
        \* exponent made even) digit by digit, q the root and r the remainder
        \* one digit: << q, r >> for the next two bits of m
        SqrtBit(qr, m, n) ==
            IF 4 * qr[2] + (IF n < 13 THEN (m \div Pow2(2 * (12 - n))) % 4 ELSE 0)
                   >= 4 * qr[1] + 1
            THEN << 2 * qr[1] + 1,
                    4 * qr[2] + (IF n < 13 THEN (m \div Pow2(2 * (12 - n))) % 4 ELSE 0)
                      - (4 * qr[1] + 1) >>
            ELSE << 2 * qr[1],
                    4 * qr[2] + (IF n < 13 THEN (m \div Pow2(2 * (12 - n))) % 4 ELSE 0) >>
        \* four digits a step
        RECURSIVE SqrtSteps(_, _, _, _)
        SqrtSteps(qr, m, n, e) ==
            IF qr[1] >= Pow2(23) \/ n = 24
            THEN Pack(1, IF qr[2] > qr[1] THEN qr[1] + 1 ELSE qr[1], e)
            ELSE SqrtSteps(SqrtBit(SqrtBit(SqrtBit(SqrtBit(qr, m, n), m, n + 1), m, n + 2),
                                   m, n + 3), m, n + 4, e)
    IN
        IF a[1] = 0 THEN Zero
        ELSE IF a[2] % 2 = 0 THEN SqrtSteps(<< 0, 0 >>, 4 * a[1], 0, (a[2] - 24) \div 2)
        ELSE SqrtSteps(<< 0, 0 >>, 2 * a[1], 0, (a[2] - 23) \div 2)

\* a < b, a <= b
LtF(a, b) ==
    IF a[1] = 0 THEN b[1] > 0
    ELSE IF b[1] = 0 THEN a[1] < 0
    ELSE IF a[1] < 0 /\ b[1] > 0 THEN TRUE
    ELSE IF a[1] > 0 /\ b[1] < 0 THEN FALSE
    ELSE IF a[1] > 0 THEN a[2] < b[2] \/ (a[2] = b[2] /\ a[1] < b[1])
    ELSE a[2] > b[2] \/ (a[2] = b[2] /\ a[1] < b[1])
LeF(a, b) == a = b \/ LtF(a, b)

\* the conversion of an integer (int to float, |n| < 2^31), and the literal
\* n/d
FromInt(n) == Norm(n, 0)
Float(n, d) == DivF(FromInt(n), FromInt(d))

-----------------------------------------------------------------------------
(* sin and cos as mouse_callback calls them: the unqualified calls take the *)
(* C library's double functions, the products are formed in double and the  *)
(* results are rounded to float when stored in the vec3.  A double result   *)
(* is modelled by a signed fixed-point number << sign, w >>, w a tuple of 8 *)
(* limbs of 12 bits, limb j of weight 4096^(1-j) (84 fractional bits).      *)

WZero == << 0, 0, 0, 0, 0, 0, 0, 0 >>
WOne == << 1, 0, 0, 0, 0, 0, 0, 0 >>
\* pi/2 and 2/pi
HalfPi == << 1, 2337, 4021, 1092, 721, 2118, 2441, 2252 >>
TwoOverPi == << 0, 2607, 2435, 1764, 3652, 338, 2556, 629 >>

Limb(w, j) == IF j > 8 THEN 0 ELSE w[j]

WAdd(a, b) ==
    LET RECURSIVE WAddStep(_, _, _, _, _)
        WAddStep(a0, b0, j, t, acc) ==
            IF j = 1 THEN << t >> \o acc
            ELSE WAddStep(a0, b0, j - 1, a0[j - 1] + b0[j - 1] + t \div 4096,
                          << t % 4096 >> \o acc)
    IN
        WAddStep(a, b, 8, a[8] + b[8], << >>)

WSub(a, b) ==
    LET \* a - b for b <= a
        RECURSIVE WSubStep(_, _, _, _, _)
        WSubStep(a0, b0, j, t, acc) ==
            IF j = 1 THEN << t >> \o acc
            ELSE IF t < 0
                 THEN WSubStep(a0, b0, j - 1, a0[j - 1] - b0[j - 1] - 1, << t + 4096 >> \o acc)
                 ELSE WSubStep(a0, b0, j - 1, a0[j - 1] - b0[j - 1], << t >> \o acc)
    IN
        WSubStep(a, b, 8, a[8] - b[8], << >>)

WLt(a, b) ==
    LET RECURSIVE WLtFrom(_, _, _)
        WLtFrom(a0, b0, j) ==
            IF j > 8 THEN FALSE
            ELSE IF a0[j] # b0[j] THEN a0[j] < b0[j]
            ELSE WLtFrom(a0, b0, j + 1)
    IN
        WLtFrom(a, b, 1)

WMul(a, b) ==
    LET \* a * b, truncated: column k collects the limb products of weight
        \* 4096^(1-k); the carries are then passed up from column 9
        Columns(a0, b0) ==
            << a0[1] * b0[1],
               a0[1] * b0[2] + a0[2] * b0[1],
               a0[1] * b0[3] + a0[2] * b0[2] + a0[3] * b0[1],
               a0[1] * b0[4] + a0[2] * b0[3] + a0[3] * b0[2] + a0[4] * b0[1],
               a0[1] * b0[5] + a0[2] * b0[4] + a0[3] * b0[3] + a0[4] * b0[2]
                 + a0[5] * b0[1],
               a0[1] * b0[6] + a0[2] * b0[5] + a0[3] * b0[4] + a0[4] * b0[3]
                 + a0[5] * b0[2] + a0[6] * b0[1],
               a0[1] * b0[7] + a0[2] * b0[6] + a0[3] * b0[5] + a0[4] * b0[4]
                 + a0[5] * b0[3] + a0[6] * b0[2] + a0[7] * b0[1],
               a0[1] * b0[8] + a0[2] * b0[7] + a0[3] * b0[6] + a0[4] * b0[5]
                 + a0[5] * b0[4] + a0[6] * b0[3] + a0[7] * b0[2] + a0[8] * b0[1],
               a0[2] * b0[8] + a0[3] * b0[7] + a0[4] * b0[6] + a0[5] * b0[5]
                 + a0[6] * b0[4] + a0[7] * b0[3] + a0[8] * b0[2] >>
        RECURSIVE WCarry(_, _, _, _)
        WCarry(c, k, t, acc) ==
            IF k = 1 THEN << t >> \o acc
            ELSE WCarry(c, k - 1, c[k - 1] + t \div 4096, << t % 4096 >> \o acc)
        WMulCols(c) == WCarry(c, 8, c[8] + c[9] \div 4096, << >>)
    IN
        WMulCols(Columns(a, b))

WMulSmall(a, n) ==
    LET \* a * n and a / n for a small natural number n
        RECURSIVE WMulSmallStep(_, _, _, _, _)
        WMulSmallStep(a0, n0, j, t, acc) ==
            IF j = 1 THEN << t >> \o acc
            ELSE WMulSmallStep(a0, n0, j - 1, a0[j - 1] * n0 + t \div 4096,
                               << t % 4096 >> \o acc)
    IN
        WMulSmallStep(a, n, 8, a[8] * n, << >>)
WDivSmall(a, n) ==
    LET RECURSIVE WDivSmallStep(_, _, _, _, _)
        WDivSmallStep(a0, n0, j, t, acc) ==
            IF j = 8 THEN acc \o << t \div n0 >>
            ELSE WDivSmallStep(a0, n0, j + 1, (t % n0) * 4096 + a0[j + 1],
                               acc \o << t \div n0 >>)
    IN
        WDivSmallStep(a, n, 1, a[1], << >>)

WideOfFloat(x) ==
    LET \* the magnitude of a float as a wide number (float to double is exact)
        WLimbOf(m, s) ==
            IF s >= 12 \/ s <= -24 THEN 0
            ELSE IF s >= 0 THEN (m % Pow2(12 - s)) * Pow2(s)
            ELSE (m \div Pow2(-s)) % 4096
        WIntOf(m, e) ==
            IF e >= 0 THEN m * Pow2(e) ELSE IF e <= -24 THEN 0 ELSE m \div Pow2(-e)
        WMag(m, e) ==
            << WIntOf(m, e), WLimbOf(m, e + 12), WLimbOf(m, e + 24),
               WLimbOf(m, e + 36), WLimbOf(m, e + 48), WLimbOf(m, e + 60),
               WLimbOf(m, e + 72), WLimbOf(m, e + 84) >>
    IN
        WMag(Abs(x[1]), x[2])

ToFloat(d) ==
    LET \* the store of a double in a float: the 24 leading bits, three guard bits
        \* (the lowest sticky), rounded
        RECURSIVE BitLen(_)
        BitLen(t) == IF t = 0 THEN 0 ELSE 1 + BitLen(t \div 2)
        RECURSIVE TopLimb(_, _)
        TopLimb(w, j) ==
            IF j > 8 THEN 0 ELSE IF w[j] # 0 THEN j ELSE TopLimb(w, j + 1)
        RECURSIVE AnyBelow(_, _)
        AnyBelow(w, j) == IF j > 8 THEN FALSE ELSE w[j] # 0 \/ AnyBelow(w, j + 1)
        WRoundBits(s, top24, g, L, low, e) ==
            NormRound(s, Sticky(top24 * 8 + g \div Pow2(L + 9),
                                IF g % Pow2(L + 9) # 0 \/ low THEN 1 ELSE 0), e - 3)
        WRoundAt(s, w, i, L, mid) ==
            WRoundBits(s, w[i] * Pow2(24 - L) + mid \div Pow2(L),
                       (mid % Pow2(L)) * 4096 + Limb(w, i + 3), L,
                       AnyBelow(w, i + 4), L - 24 - 12 * (i - 1))
        WRoundTop(s, w, i) ==
            IF i = 0 THEN Zero
            ELSE WRoundAt(s, w, i, BitLen(w[i]), Limb(w, i + 1) * 4096 + Limb(w, i + 2))
    IN
        WRoundTop(d[1], d[2], TopLimb(d[2], 1))

\* the alternating Taylor series term - term * r2 / (n (n + 1)) + ..., the
\* positive and the negative terms summed apart
RECURSIVE Series(_, _, _, _, _, _)
Series(term, r2, n, pos, neg, plus) ==
    IF term = WZero \/ pos[1] + neg[1] >= 4096
    THEN (IF WLt(pos, neg) THEN WZero ELSE WSub(pos, neg))
    ELSE Series(WDivSmall(WMul(term, r2), n * (n + 1)), r2, n + 2,
                IF plus THEN WAdd(pos, term) ELSE pos,
                IF plus THEN neg ELSE WAdd(neg, term), ~plus)
\* sin r and cos r for 0 <= r <= pi/2
WSin(r) == Series(r, WMul(r, r), 2, WZero, WZero, TRUE)
WCos(r) == Series(WOne, WMul(r, r), 1, WZero, WZero, TRUE)

Reduce(x) ==
    LET \* x = k * pi/2 + r with 0 <= r < pi/2, as << k, r >>
        ReduceFix(x0, k, kh) ==
            IF WLt(x0, kh) THEN << k - 1, WSub(WAdd(x0, HalfPi), kh) >>
            ELSE IF WLt(WSub(x0, kh), HalfPi) THEN << k, WSub(x0, kh) >>
            ELSE << k + 1, WSub(WSub(x0, kh), HalfPi) >>
        ReduceBy(x0, k) == ReduceFix(x0, k, WMulSmall(HalfPi, k))
    IN
        ReduceBy(x, WMul(x, TwoOverPi)[1])
SinQ(s, kr) ==
    IF kr[1] % 4 = 0 THEN << s, WSin(kr[2]) >>
    ELSE IF kr[1] % 4 = 1 THEN << s, WCos(kr[2]) >>
    ELSE IF kr[1] % 4 = 2 THEN << -s, WSin(kr[2]) >>
    ELSE << -s, WCos(kr[2]) >>
CosQ(kr) ==
    IF kr[1] % 4 = 0 THEN << 1, WCos(kr[2]) >>
    ELSE IF kr[1] % 4 = 1 THEN << -1, WSin(kr[2]) >>
    ELSE IF kr[1] % 4 = 2 THEN << -1, WCos(kr[2]) >>
    ELSE << 1, WSin(kr[2]) >>
\* sin(x), cos(x) of a float x, and the product of two doubles
sin(x) == SinQ(Sgn(x[1]), Reduce(WideOfFloat(x)))
cos(x) == CosQ(Reduce(WideOfFloat(x)))
DMul(a, b) == << a[1] * b[1], WMul(a[2], b[2]) >>

\* glm::radians: degrees * 0.01745329251994329576923690768489f
radians(degrees) == MulF(degrees, << 9370165, -29 >>)

-----------------------------------------------------------------------------
(* tan as glm::perspective calls it: the C library's float function, which  *)
(* evaluates a polynomial kernel in float arithmetic.  An argument above    *)
(* pi/4 is first reduced by pi/2 (given in two parts) and the kernel then   *)
(* returns -1/tan; the arguments of the program, half of a field of view of *)
(* at most 90 degrees, stay below 0.785398186.                              *)

\* the coefficients of the kernel, T[0] and those of odd and of even index
TanT0 == << 11184811, -25 >>
TanOdd == << << 8947849, -26 >>, << 11741092, -29 >>, << 15427862, -32 >>,
             << 10102472, -34 >>, << 10744901, -37 >>, << -10202719, -39 >> >>
TanEven == << << 14486993, -28 >>, << 9516831, -30 >>, << 12508744, -33 >>,
              << 8468409, -35 >>, << 9814138, -37 >>, << 14242692, -39 >> >>
\* pi/4 in two parts, the bound 0.6744 of the kernel, 2^-13, and pi/2 in
\* two parts
Pio4 == << 13176794, -24 >>
Pio4Lo == << 10625384, -48 >>
TanBig == << 11313472, -24 >>
TanTiny == << 8388608, -36 >>
Pio2Hi == << 13176704, -23 >>
Pio2Lo == << 11879491, -40 >>

\* the kernel: tan(x + y) for iy = 1 and -1/tan(x + y) for iy = -1 (for
\* iy = -1 only the large arguments are modelled)
KernelTan(x, y, iy) ==
    LET \* c[i] + w * (c[i+1] + w * (...))
        RECURSIVE Horner(_, _, _)
        Horner(w, c, i) ==
            IF i = Len(c) THEN c[i] ELSE AddF(c[i], MulF(w, Horner(w, c, i + 1)))
        \* the end of the kernel: w = x + r, and for a large argument
        \* sign * (v - 2 * (x - (w * w / (w + v) - r))) with v = (float)iy
        KTanRet(x0, iy0, sign, big, r, w) ==
            IF big
            THEN MulF(FromInt(sign),
                      SubF(FromInt(iy0),
                           MulF(Two, SubF(x0, SubF(DivF(MulF(w, w), AddF(w, FromInt(iy0))), r)))))
            ELSE w
        KTanSum(x0, iy0, sign, big, r) ==
            Val({ KTanRet(x0, iy0, sign, big, r, w) : w \in { AddF(x0, r) } })
        \* r = y + z * (s * (r + v) + y); r += T[0] * s
        KTanTerms(x0, y0, iy0, sign, big, z, r, v, s) ==
            KTanSum(x0, iy0, sign, big,
                    AddF(AddF(y0, MulF(z, AddF(MulF(s, AddF(r, v)), y0))), MulF(TanT0, s)))
        KTanPoly(x0, y0, iy0, sign, big, z, w) ==
            Val({ KTanTerms(x0, y0, iy0, sign, big, z, t[1], t[2], t[3]) :
                  t \in { << Horner(w, TanOdd, 1), MulF(z, Horner(w, TanEven, 1)),
                             MulF(z, x0) >> } })
        KTanSquare(x0, y0, iy0, sign, big, z) == KTanPoly(x0, y0, iy0, sign, big, z, MulF(z, z))
        KTanEval(x0, y0, iy0, sign, big) == KTanSquare(x0, y0, iy0, sign, big, MulF(x0, x0))
        \* a large argument: x = (pio4 - |x|) + (pio4lo - |y|), and the short cut
        \* for a tiny x
        KTanBig(iy0, sign, x0) ==
            IF LtF(AbsF(x0), TanTiny)
            THEN MulF(FromInt(sign * iy0), SubF(One, MulF(FromInt(2 * iy0), x0)))
            ELSE KTanEval(x0, Zero, iy0, sign, TRUE)
    IN
        IF iy = 1 /\ LtF(AbsF(x), TanTiny) THEN x
        ELSE IF ~LtF(AbsF(x), TanBig)
        THEN KTanBig(iy, Sgn(x[1]),
                     AddF(SubF(Pio4, AbsF(x)),
                          SubF(Pio4Lo, IF x[1] < 0 THEN NegF(y) ELSE y)))
        ELSE KTanEval(x, y, iy, 1, FALSE)
tan(x) ==
    LET \* the reduction of pi/4 < x < 3 pi/4: y0 = (x - pio2hi) - pio2lo and its
        \* rounding error y1
        TanReduced(z, y0) == KernelTan(y0, SubF(SubF(z, y0), Pio2Lo), -1)
    IN
        IF LeF(x, Pio4) THEN KernelTan(x, Zero, 1)
        ELSE TanReduced(SubF(x, Pio2Hi), SubF(SubF(x, Pio2Hi), Pio2Lo))

-----------------------------------------------------------------------------
(* glm::vec3, glm::vec4, glm::mat4 (a matrix is the tuple of its rows),     *)
(* with the operations in the order GLM performs them.                      *)

VAdd(a, b) == << AddF(a[1], b[1]), AddF(a[2], b[2]), AddF(a[3], b[3]) >>
VSub(a, b) == << SubF(a[1], b[1]), SubF(a[2], b[2]), SubF(a[3], b[3]) >>
VScale(k, a) == << MulF(k, a[1]), MulF(k, a[2]), MulF(k, a[3]) >>
VNeg(a) == << NegF(a[1]), NegF(a[2]), NegF(a[3]) >>
\* glm::dot: tmp = a * b; (tmp.x + tmp.y) + tmp.z
Dot(a, b) == AddF(AddF(MulF(a[1], b[1]), MulF(a[2], b[2])), MulF(a[3], b[3]))
Cross(a, b) == << SubF(MulF(a[2], b[3]), MulF(b[2], a[3])),
                  SubF(MulF(a[3], b[1]), MulF(b[3], a[1])),
                  SubF(MulF(a[1], b[2]), MulF(b[1], a[2])) >>

\* glm::normalize: v * inversesqrt(dot(v, v)), inversesqrt(x) = 1 / sqrt(x)
inversesqrt(x) == DivF(One, SqrtF(x))
Normalize(a) == Val({ VScale(k, a) : k \in { inversesqrt(Dot(a, a)) } })

MatVec(m, v) ==
    LET \* mat4 * vec4, one component: (m0 * v0 + m1 * v1) + (m2 * v2 + m3 * v3)
        RowVec(r, v0) == AddF(AddF(MulF(r[1], v0[1]), MulF(r[2], v0[2])),
                             AddF(MulF(r[3], v0[3]), MulF(r[4], v0[4])))
    IN
        << RowVec(m[1], v), RowVec(m[2], v), RowVec(m[3], v),
                       RowVec(m[4], v) >>

\* mat4 * mat4, one component: ((a0 * b0 + a1 * b1) + a2 * b2) + a3 * b3
Dot4(r, b, j) == AddF(AddF(AddF(MulF(r[1], b[1][j]), MulF(r[2], b[2][j])),
                           MulF(r[3], b[3][j])), MulF(r[4], b[4][j]))
MatRow(r, b) == << Dot4(r, b, 1), Dot4(r, b, 2), Dot4(r, b, 3), Dot4(r, b, 4) >>
MatMul(a, b) == << MatRow(a[1], b), MatRow(a[2], b), MatRow(a[3], b),
                   MatRow(a[4], b) >>

lookAt(eye, center, up) ==
    LET \* glm::lookAt (right-handed): f = normalize(center - eye),
        \* s = normalize(cross(f, up)), u = cross(s, f)
        LookAtRows(eye0, f, s, u) ==
            << << s[1], s[2], s[3], NegF(Dot(s, eye0)) >>,
               << u[1], u[2], u[3], NegF(Dot(u, eye0)) >>,
               << NegF(f[1]), NegF(f[2]), NegF(f[3]), Dot(f, eye0) >>,
               << Zero, Zero, Zero, One >> >>
        LookAtSide(eye0, f, s) == Val({ LookAtRows(eye0, f, s, u) : u \in { Cross(s, f) } })
        LookAtFront(eye0, up0, f) ==
            Val({ LookAtSide(eye0, f, s) : s \in { Normalize(Cross(f, up0)) } })
    IN
        Val({ LookAtFront(eye, up, f) : f \in { Normalize(VSub(center, eye)) } })

perspective(fovy, aspect, zNear, zFar) ==
    LET \* glm::perspective (right-handed, clip depth -1..1)
        PerspectiveRows(aspect0, zNear0, zFar0, tanHalfFovy) ==
            << << DivF(One, MulF(aspect0, tanHalfFovy)), Zero, Zero, Zero >>,
               << Zero, DivF(One, tanHalfFovy), Zero, Zero >>,
               << Zero, Zero, NegF(DivF(AddF(zFar0, zNear0), SubF(zFar0, zNear0))),
                  NegF(DivF(MulF(MulF(Two, zFar0), zNear0), SubF(zFar0, zNear0))) >>,
               << Zero, Zero, NegF(One), Zero >> >>
    IN
        Val({ PerspectiveRows(aspect, zNear, zFar, tanHalfFovy) :
              tanHalfFovy \in { tan(DivF(fovy, Two)) } })

-----------------------------------------------------------------------------
(* Program constants.                                                      *)

WIDTH == 800
HEIGHT == 600
chunkSize == 16
stoneChunks == 13
dirtChunks == 2
grassChunks == 1
totalChunks == stoneChunks + dirtChunks + grassChunks

\* the projection of a frame (src/main.cpp:302)
Projection(fovDeg) ==
    perspective(radians(fovDeg), DivF(FromInt(WIDTH), FromInt(HEIGHT)),
                Float(1, 10), FromInt(500))

\* the view of a frame (src/main.cpp:300)
View(pos, front, up) == lookAt(pos, VAdd(pos, front), up)

-----------------------------------------------------------------------------
(* isChunkInViewFrustum (src/main.cpp:646-672).                            *)

\* glm::vec3(a, b, c) of three floats
Vec3(a, b, c) == << a, b, c >>

\* the 8 corners, in the order of the array corners[8]
Corners(chunkPos, size) ==
    << chunkPos,
       VAdd(chunkPos, Vec3(size, Zero, Zero)),
       VAdd(chunkPos, Vec3(Zero, size, Zero)),
       VAdd(chunkPos, Vec3(Zero, Zero, size)),
       VAdd(chunkPos, Vec3(size, size, Zero)),
       VAdd(chunkPos, Vec3(size, Zero, size)),
       VAdd(chunkPos, Vec3(Zero, size, size)),
       VAdd(chunkPos, Vec3(size, size, size)) >>

\* projection * view * vec4(corner, 1.0f); pv is projection * view, which the
\* loop recomputes for every corner with the same result
ClipSpacePos(pv, corner) == MatVec(pv, << corner[1], corner[2], corner[3], One >>)

\* the frustum check of one corner (the if of the loop)
\* (a variant that accepts a corner on the plane y = w)
CornerInsideOrOnPlane(c) ==
    /\ LtF(NegF(c[4]), c[1]) /\ LtF(c[1], c[4])
    /\ LtF(NegF(c[4]), c[2]) /\ LeF(c[2], c[4])
    /\ LtF(NegF(c[4]), c[3]) /\ LtF(c[3], c[4])

CornerInside(c) ==
    /\ LtF(NegF(c[4]), c[1]) /\ LtF(c[1], c[4])
    /\ LtF(NegF(c[4]), c[2]) /\ LtF(c[2], c[4])
    /\ LtF(NegF(c[4]), c[3]) /\ LtF(c[3], c[4])

\* for (int i = 0; i < 8; i++) ... return true; ... return false;
RECURSIVE CornerLoop(_, _, _)
CornerLoop(corners, pv, i) ==
    IF i > 8 THEN FALSE
    ELSE IF \E clipSpacePos \in { ClipSpacePos(pv, corners[i]) } :
               CornerInside(clipSpacePos)
         THEN TRUE
         ELSE CornerLoop(corners, pv, i + 1)

isChunkInViewFrustum(chunkPos, viewM, projectionM, size) ==
    \E pv \in { MatMul(projectionM, viewM) } :
        \E corners \in { Corners(chunkPos, size) } :
            CornerLoop(corners, pv, 1)

FrontOf(yawDeg, pitchDeg) ==
    LET \* the look direction mouse_callback computes (src/main.cpp:536-540)
        FrontRaw(cy, sy, cp, sp) ==
            << ToFloat(DMul(cy, cp)), ToFloat(sp), ToFloat(DMul(sy, cp)) >>
        FrontAt(ry, rp) ==
            Val({ FrontRaw(t[1], t[2], t[3], t[4]) :
                  t \in { << cos(ry), sin(ry), cos(rp), sin(rp) >> } })
    IN
        Val({ Normalize(front) :
              front \in { FrontAt(radians(yawDeg), radians(pitchDeg)) } })

-----------------------------------------------------------------------------
(* The chunk: its generation and the drawing of its blocks                 *)
(* (src/main.cpp:326-342 and 361-411).                                     *)

\* (a variant whose upper bound test is off by one: x == chunkSize)
InitChunkOffByOne(S) ==
    [x \in 0..(S - 1) |-> [y \in 0..(S - 1) |-> [z \in 0..(S - 1) |->
        IF \/ x = 0 \/ x = S
           \/ y = 0 \/ y = S - 1
           \/ z = 0 \/ z = S - 1
        THEN 1 ELSE 0]]]

\* int chunk[S][S][S] after the three initialisation loops
InitChunk(S) ==
    [x \in 0..(S - 1) |-> [y \in 0..(S - 1) |-> [z \in 0..(S - 1) |->
        IF \/ x = 0 \/ x = S - 1
           \/ y = 0 \/ y = S - 1
           \/ z = 0 \/ z = S - 1
        THEN 1 ELSE 0]]]

\* unsigned int indices[] (the element buffer), 0-based positions 0..35
indices ==
    << 0, 1, 2, 2, 3, 0,
       4, 5, 6, 6, 7, 4,
       0, 1, 5, 5, 4, 0,
       2, 3, 7, 7, 6, 2,
       0, 3, 7, 7, 4, 0,
       1, 2, 6, 6, 5, 1 >>

\* the positions of the 8 vertices of a block (the same in stone_vertices,
\* dirt_vertices and grass_vertices), vertex 0 first
Half == Float(1, 2)
vertices ==
    << << NegF(Half), NegF(Half), NegF(Half) >>,
       << Half, NegF(Half), NegF(Half) >>,
       << Half, Half, NegF(Half) >>,
       << NegF(Half), Half, NegF(Half) >>,
       << NegF(Half), NegF(Half), Half >>,
       << Half, NegF(Half), Half >>,
       << Half, Half, Half >>,
       << NegF(Half), Half, Half >> >>

\* glDrawElements(GL_TRIANGLES, count, GL_UNSIGNED_INT, (void*)(first * sizeof(GLuint)))
DrawElements(count, first) == [count |-> count, first |-> first]

\* (a variant whose -Z check tests the chunk boundary only)
BlockFacesNoBackNeighbour(c, S, x, y, z) ==
    (IF x = 0 \/ c[x - 1][y][z] = 0 THEN << DrawElements(6, 24) >> ELSE << >>)
    \o (IF x = S - 1 \/ c[x + 1][y][z] = 0 THEN << DrawElements(6, 30) >> ELSE << >>)
    \o (IF y = 0 \/ c[x][y - 1][z] = 0 THEN << DrawElements(6, 12) >> ELSE << >>)
    \o (IF y = S - 1 \/ c[x][y + 1][z] = 0 THEN << DrawElements(6, 18) >> ELSE << >>)
    \o (IF z = 0 THEN << DrawElements(6, 0) >> ELSE << >>)
    \o (IF z = S - 1 \/ c[x][y][z + 1] = 0 THEN << DrawElements(6, 6) >> ELSE << >>)

\* (a variant whose -Y and +Y draws take each other's index sub-range)
BlockFacesSwappedRanges(c, S, x, y, z) ==
    (IF x = 0 \/ c[x - 1][y][z] = 0 THEN << DrawElements(6, 24) >> ELSE << >>)
    \o (IF x = S - 1 \/ c[x + 1][y][z] = 0 THEN << DrawElements(6, 30) >> ELSE << >>)
    \o (IF y = 0 \/ c[x][y - 1][z] = 0 THEN << DrawElements(6, 18) >> ELSE << >>)
    \o (IF y = S - 1 \/ c[x][y + 1][z] = 0 THEN << DrawElements(6, 12) >> ELSE << >>)
    \o (IF z = 0 \/ c[x][y][z - 1] = 0 THEN << DrawElements(6, 0) >> ELSE << >>)
    \o (IF z = S - 1 \/ c[x][y][z + 1] = 0 THEN << DrawElements(6, 6) >> ELSE << >>)

\* the six face checks of one solid block, in the order of the code; the
\* result is the sequence of draw calls issued for the block
BlockFaces(c, S, x, y, z) ==
    (IF x = 0 \/ c[x - 1][y][z] = 0 THEN << DrawElements(6, 24) >> ELSE << >>)
    \o (IF x = S - 1 \/ c[x + 1][y][z] = 0 THEN << DrawElements(6, 30) >> ELSE << >>)
    \o (IF y = 0 \/ c[x][y - 1][z] = 0 THEN << DrawElements(6, 12) >> ELSE << >>)
    \o (IF y = S - 1 \/ c[x][y + 1][z] = 0 THEN << DrawElements(6, 18) >> ELSE << >>)
    \o (IF z = 0 \/ c[x][y][z - 1] = 0 THEN << DrawElements(6, 0) >> ELSE << >>)
    \o (IF z = S - 1 \/ c[x][y][z + 1] = 0 THEN << DrawElements(6, 6) >> ELSE << >>)

\* the cells the three nested block loops do not skip
\* (if (chunk[x][y][z] == 0) continue;)
SolidCells(c, S) ==
    { p \in (0..(S - 1)) \X (0..(S - 1)) \X (0..(S - 1)) :
        c[p[1]][p[2]][p[3]] # 0 }

\* the three nested block loops over a whole chunk: the number of blocks
\* counted (total_rendered_blocks++) and the number of draw calls issued
RenderBlocks(c, S) ==
    [blocks |-> Cardinality(SolidCells(c, S)),
     draws  |-> Cardinality({ d \in SolidCells(c, S) \X (1..6) :
                    d[2] <= Len(BlockFaces(c, S, d[1][1], d[1][2], d[1][3])) })]

\* the chunk of every iteration of the chunk loop, and what its block loops
\* do: both depend on chunkSize only
HollowChunk == InitChunk(chunkSize)
HollowRender == RenderBlocks(HollowChunk, chunkSize)

-----------------------------------------------------------------------------
(* Bounds of the model.                                                    *)

\* the largest chunk dimension of the block-loop specification
MaxS == 3
\* the number of frames a run of the program starts
MaxFrames == 3
\* the number of input events (key, mouse, scroll) delivered in a run
MaxEvents == 2
\* the number of callbacks of the callback-only specification
MaxCallbacks == 4

-----------------------------------------------------------------------------
(* The state before main() runs: the globals as initialised at             *)
(* src/main.cpp:21-34, everything else not yet set.                        *)

cameraUp == << Zero, One, Zero >>

GlobalsInit ==
    /\ exitCode = 0
    /\ stdout = << >>
    /\ stderr = << >>
    /\ glfwLive = FALSE
    /\ shouldClose = FALSE
    /\ cursorMode = "GLFW_CURSOR_NORMAL"
    /\ monitor = "NULL"
    /\ polygonMode = "GL_FILL"
    /\ keys = {}
    /\ title = << >>
    /\ glObjects = {}
    /\ teardowns = 0
    /\ cameraPos = << Zero, FromInt(16), FromInt(48) >>
    /\ cameraFront = << Zero, NegF(Float(2, 10)), NegF(One) >>
    /\ yaw = NegF(FromInt(90))
    /\ pitch = NegF(FromInt(10))
    /\ lastX = DivF(FromInt(WIDTH), Two)
    /\ lastY = DivF(FromInt(HEIGHT), Two)
    /\ fov = FromInt(45)
    /\ firstMouse = TRUE
    /\ deltaTime = Zero
    /\ lastFrame = Zero
    /\ view = << >>
    /\ projection = << >>
    /\ chunkY = 0
    /\ boundVAO = "none"
    /\ total_rendered_blocks = 0
    /\ drawCalls = 0
    /\ frameLog = << >>
    /\ frames = 0
    /\ previousSeconds = 0
    /\ frameCount = 0
    /\ lastFps = 0
    /\ now = 0
    /\ event = << >>
    /\ enterToggles = 0
    /\ glCalls = << >>
    /\ bx = 0
    /\ by = 0
    /\ bz = 0
    /\ fr = << >>

-----------------------------------------------------------------------------
(* The block loops of one chunk, one cell per step (src/main.cpp:361-411), *)
(* over a chunk of dimension gridS.                                        *)

AllCells(S) == (0..(S - 1)) \X (0..(S - 1)) \X (0..(S - 1))

UniformChunk(S, v) ==
    [x \in 0..(S - 1) |-> [y \in 0..(S - 1) |-> [z \in 0..(S - 1) |-> v]]]

\* the chunk c with cell p toggled between air and solid
Toggle(c, p) ==
    [c EXCEPT ![p[1]][p[2]][p[3]] = 1 - c[p[1]][p[2]][p[3]]]

\* the occupancy grids the block loops are run on: all air, all solid and
\* the hollow shell, each as it is and with any one cell toggled
Grids(S) ==
    LET bases == { UniformChunk(S, 0), UniformChunk(S, 1), InitChunk(S) }
    IN  bases \cup { Toggle(b, p) : b \in bases, p \in AllCells(S) }

\* z++, then y++, then x++; the loops end when x reaches gridS
Advance ==
    IF bz + 1 < gridS THEN
        /\ bz' = bz + 1 /\ UNCHANGED << bx, by, pc >>
    ELSE IF by + 1 < gridS THEN
        /\ bz' = 0 /\ by' = by + 1 /\ UNCHANGED << bx, pc >>
    ELSE IF bx + 1 < gridS THEN
        /\ bz' = 0 /\ by' = 0 /\ bx' = bx + 1 /\ UNCHANGED pc
    ELSE
        /\ bz' = 0 /\ by' = 0 /\ bx' = bx + 1 /\ pc' = "blocksDone"

\* if (chunk[x][y][z] == 0) continue;
SkipAir ==
    /\ pc = "blocks"
    /\ chunk[bx][by][bz] = 0
    /\ Advance
    /\ UNCHANGED << exitCode, stdout, stderr, glfwLive, shouldClose,
                    cursorMode, monitor, polygonMode, keys, title, glObjects,
                    teardowns, deltaTime, lastFrame, view, projection, chunkY,
                    boundVAO, drawCalls, frameLog, frames, previousSeconds,
                    frameCount, lastFps, now, event, enterToggles >>
    /\ UNCHANGED << cameraVars, chunk, total_rendered_blocks, budget, frameBudget, gridS,
                    glCalls, fr >>

\* a solid block: its model matrix, its face checks and draw calls, then
\* total_rendered_blocks++
RenderBlock ==
    /\ pc = "blocks"
    /\ chunk[bx][by][bz] # 0
    /\ glCalls' = glCalls \o
           [i \in 1..Len(BlockFaces(chunk, gridS, bx, by, bz)) |->
               [pos |-> << bx, by, bz >>,
                call |-> BlockFaces(chunk, gridS, bx, by, bz)[i]]]
    /\ total_rendered_blocks' = total_rendered_blocks + 1
    /\ Advance
    /\ UNCHANGED << exitCode, stdout, stderr, glfwLive, shouldClose,
                    cursorMode, monitor, polygonMode, keys, title, glObjects,
                    teardowns, deltaTime, lastFrame, view, projection, chunkY,
                    boundVAO, drawCalls, frameLog, frames, previousSeconds,
                    frameCount, lastFps, now, event, enterToggles >>
    /\ UNCHANGED << cameraVars, chunk, budget, frameBudget, gridS, fr >>

InitBlocks ==
    /\ GlobalsInit
    /\ pc = "blocks"
    /\ budget = 0
    /\ frameBudget = 0
    /\ gridS \in 1..MaxS
    /\ chunk \in Grids(gridS)

NextBlocks == SkipAir \/ RenderBlock

SpecBlocks == InitBlocks /\ [][NextBlocks]_vars

-----------------------------------------------------------------------------
(* Claims about the block loops (specification SpecBlocks).                *)

\* the cells the loops have passed: those before the cursor in loop order
Passed(p) ==
    \/ pc = "blocksDone"
    \/ p[1] < bx
    \/ p[1] = bx /\ p[2] < by
    \/ p[1] = bx /\ p[2] = by /\ p[3] < bz

\* the vertices a draw call references through the element buffer
CallVertices(call) ==
    { vertices[indices[call.first + k] + 1] : k \in 1..call.count }

\* the call draws on the side sign (-1 or +1) of axis (1 = X, 2 = Y, 3 = Z):
\* every vertex it references has that coordinate at sign * 0.5
OnSide(call, axis, sign) ==
    \A v \in CallVertices(call) : v[axis] = MulF(FromInt(sign), Half)

Sides == (1..3) \X { -1, 1 }

\* the neighbour of cell p on a side
Neighbour(p, side) ==
    [p EXCEPT ![side[1]] = p[side[1]] + side[2]]

InChunk(p) == \A a \in 1..3 : p[a] \in 0..(gridS - 1)

Solid(p) == chunk[p[1]][p[2]][p[3]] # 0

\* the neighbour coordinate leaves [0, S-1], or the neighbour cell is air
Exposed(p, side) ==
    \/ ~InChunk(Neighbour(p, side))
    \/ ~Solid(Neighbour(p, side))

\* the draw calls issued for cell p on a side
CallsOn(p, side) ==
    { i \in DOMAIN glCalls :
        glCalls[i].pos = p /\ OnSide(glCalls[i].call, side[1], side[2]) }

\* C1: for every cell the loops have passed, an air cell has no draw call,
\* and a solid cell has exactly one draw call on each side whose neighbour is
\* outside the chunk or air, and none on any other side; every draw call
\* lies on one side of its cell.
C1_FacesDrawnIffExposed ==
    pc \in { "blocks", "blocksDone" } =>
        /\ \A p \in AllCells(gridS) :
             Passed(p) =>
               \A side \in Sides :
                 Cardinality(CallsOn(p, side)) =
                    IF Solid(p) /\ Exposed(p, side) THEN 1 ELSE 0
        /\ \A i \in DOMAIN glCalls :
             /\ Passed(glCalls[i].pos)
             /\ \E side \in Sides :
                    OnSide(glCalls[i].call, side[1], side[2])

\* the loops are done on a 3 x 3 x 3 chunk in which some solid cell has a
\* drawn side and a side hidden by a solid neighbour, and some cell is air
C1_Witness ==
    /\ pc = "blocksDone"
    /\ gridS = 3
    /\ \E p \in AllCells(gridS) : ~Solid(p)
    /\ \E p \in AllCells(gridS) :
         /\ Solid(p)
         /\ \E s1, s2 \in Sides :
              /\ InChunk(Neighbour(p, s1)) /\ Exposed(p, s1)
              /\ Cardinality(CallsOn(p, s1)) = 1
              /\ ~Exposed(p, s2)
              /\ Cardinality(CallsOn(p, s2)) = 0

\* the place of a side in the order -X, +X, -Y, +Y, -Z, +Z
SideRank(side) == 2 * side[1] + (IF side[2] = 1 THEN 0 ELSE -1)

\* the side a draw call lies on
SideOf(call) ==
    CHOOSE side \in Sides : OnSide(call, side[1], side[2])

\* C4: every draw call draws 6 indices from one of the six contiguous
\* 6-index ranges of the 36-entry element buffer, all its vertices lie on one
\* side of the block, and the draw calls of a block come in the order
\* -X, +X, -Y, +Y, -Z, +Z of the sides they lie on.
C4_FaceOrderAndRanges ==
    /\ Len(indices) = 36
    /\ \A i \in DOMAIN glCalls :
         /\ glCalls[i].call.count = 6
         /\ glCalls[i].call.first \in { 0, 6, 12, 18, 24, 30 }
         /\ Cardinality({ side \in Sides :
                OnSide(glCalls[i].call, side[1], side[2]) }) = 1
    /\ \A i, j \in DOMAIN glCalls :
         (i < j /\ glCalls[i].pos = glCalls[j].pos) =>
            SideRank(SideOf(glCalls[i].call)) < SideRank(SideOf(glCalls[j].call))

\* a block whose six faces were all drawn, in the order of the sides
C4_Witness ==
    \E i \in DOMAIN glCalls :
        /\ i + 5 \in DOMAIN glCalls
        /\ \A k \in 0..5 :
             /\ glCalls[i + k].pos = glCalls[i].pos
             /\ SideRank(SideOf(glCalls[i + k].call)) = k + 1

-----------------------------------------------------------------------------
(* Calls of isChunkInViewFrustum on bounded inputs: a camera (position,    *)
(* yaw, pitch, field of view) with the view and projection of a frame, and *)
(* a box.                                                                  *)

EyeSet == { << Zero, Zero, Zero >>, << Zero, FromInt(16), FromInt(48) >> }
YawSet == { FromInt(-90), Zero, FromInt(-45) }
PitchSet == { Zero, FromInt(-10), FromInt(89) }
FovSet == { FromInt(1), FromInt(45), FromInt(90) }
SizeSet == { FromInt(chunkSize), FromInt(2) }

\* the box of the given size whose centre is the look-at target
TargetBox(size) ==
    VSub(VAdd(cameraPos, cameraFront),
         << DivF(size, Two), DivF(size, Two), DivF(size, Two) >>)

BoxSet(size) ==
    { << Zero, Zero, Zero >>, << Zero, FromInt(chunkSize), Zero >>,
      << Zero, FromInt(chunkSize), FromInt(-chunkSize) >>,
      << FromInt(-1), FromInt(-1), FromInt(-20) >>,
      << Zero, FromInt(15 * chunkSize), Zero >> } \cup { TargetBox(size) }

InitCull ==
    /\ pc = "cull"
    /\ budget = 0
    /\ frameBudget = 0
    /\ gridS = 0
    /\ chunk = << >>
    /\ exitCode = 0
    /\ stdout = << >>
    /\ stderr = << >>
    /\ glfwLive = TRUE
    /\ shouldClose = FALSE
    /\ cursorMode = "GLFW_CURSOR_DISABLED"
    /\ monitor = "NULL"
    /\ polygonMode = "GL_FILL"
    /\ keys = {}
    /\ title = << >>
    /\ glObjects = {}
    /\ teardowns = 0
    /\ cameraPos \in EyeSet
    /\ yaw \in YawSet
    /\ pitch \in PitchSet
    /\ cameraFront = FrontOf(yaw, pitch)
    /\ lastX = DivF(FromInt(WIDTH), Two)
    /\ lastY = DivF(FromInt(HEIGHT), Two)
    /\ fov \in FovSet
    /\ firstMouse = FALSE
    /\ deltaTime = Zero
    /\ lastFrame = Zero
    /\ view = View(cameraPos, cameraFront, cameraUp)
    /\ projection = Projection(fov)
    /\ chunkY = 0
    /\ boundVAO = "none"
    /\ total_rendered_blocks = 0
    /\ drawCalls = 0
    /\ frameLog = << >>
    /\ frames = 0
    /\ previousSeconds = 0
    /\ frameCount = 0
    /\ lastFps = 0
    /\ now = 0
    /\ event = << >>
    /\ enterToggles = 0
    /\ glCalls = << >>
    /\ bx = 0
    /\ by = 0
    /\ bz = 0
    /\ fr = << >>

\* one call isChunkInViewFrustum(chunkPos, view, projection, size)
CullCall ==
    /\ pc = "cull"
    /\ \E size \in SizeSet :
       \E chunkPos \in BoxSet(size) :
          fr' = [chunkPos |-> chunkPos, size |-> size,
                 result |-> isChunkInViewFrustum(chunkPos, view, projection, size)]
    /\ UNCHANGED << pc, exitCode, stdout, stderr, glfwLive, shouldClose,
                    cursorMode, monitor, polygonMode, keys, title, glObjects,
                    teardowns, deltaTime, lastFrame, view, projection, chunkY,
                    boundVAO, drawCalls, frameLog, frames, previousSeconds,
                    frameCount, lastFps, now, event, enterToggles >>
    /\ UNCHANGED << cameraVars, chunk, total_rendered_blocks, budget, frameBudget,
                    blockVars >>

NextCull == CullCall

SpecCull == InitCull /\ [][NextCull]_vars

-----------------------------------------------------------------------------
(* Claims about isChunkInViewFrustum (specification SpecCull).             *)

\* the 8 corners chunkPos + {0, size}^3
CornerSet(chunkPos, size) ==
    { VAdd(chunkPos, << a, b, c >>) : a, b, c \in { Zero, size } }

\* the clip-space position of a corner under the frame's matrices
ClipOf(corner) ==
    MatVec(MatMul(projection, view), << corner[1], corner[2], corner[3], One >>)

\* all six strict inequalities -w < x < w, -w < y < w, -w < z < w
StrictlyInside(c) ==
    \A a \in 1..3 : LtF(NegF(c[4]), c[a]) /\ LtF(c[a], c[4])

\* on a clip plane: some coordinate equals w or -w, with 0 < w
OnClipPlane(c) ==
    /\ LtF(Zero, c[4])
    /\ \E a \in 1..3 : c[a] = c[4] \/ c[a] = NegF(c[4])

\* C2: a call returns true exactly if one of the 8 corners is strictly
\* inside the clip volume; so it returns true when all 8 are, and false when
\* none is (corners on a clip plane or with w <= 0 do not count).
C2_TrueIffSomeCornerStrictlyInside ==
    fr # << >> =>
        /\ fr.result =
             (\E corner \in CornerSet(fr.chunkPos, fr.size) :
                  StrictlyInside(ClipOf(corner)))
        /\ (\A corner \in CornerSet(fr.chunkPos, fr.size) :
                StrictlyInside(ClipOf(corner))) => fr.result

\* a call that returned false on a box with a corner on a clip plane and a
\* corner with w <= 0
C2_Witness ==
    /\ fr # << >>
    /\ ~fr.result
    /\ \E corner \in CornerSet(fr.chunkPos, fr.size) : OnClipPlane(ClipOf(corner))
    /\ \E corner \in CornerSet(fr.chunkPos, fr.size) : LeF(ClipOf(corner)[4], Zero)

\* a call that returned true on a box with all 8 corners strictly inside
C2_AllInsideReached ==
    /\ fr # << >>
    /\ fr.result
    /\ \A corner \in CornerSet(fr.chunkPos, fr.size) : StrictlyInside(ClipOf(corner))

\* C5: a call on the box of size 16 centred at the look-at target
\* cameraPos + cameraFront returns true.
C5_TargetBoxVisible ==
    (/\ fr # << >>
     /\ fr.size = FromInt(chunkSize)
     /\ fr.chunkPos = TargetBox(fr.size)) => fr.result

-----------------------------------------------------------------------------
(* The program: main() from start-up to return, with the callbacks GLFW    *)
(* runs inside glfwPollEvents.                                             *)

ioVars == << exitCode, stdout, stderr >>
winVars == << glfwLive, shouldClose, cursorMode, monitor, polygonMode, keys,
              title, glObjects, teardowns, enterToggles >>
frameVars == << view, projection, chunkY, chunk, boundVAO,
                total_rendered_blocks, drawCalls, frameLog, frames >>
timeVars == << deltaTime, lastFrame, previousSeconds, frameCount, lastFps, now >>
envVars == << budget, frameBudget, event >>

\* what glfwGetTime() adds to the clock between two readings
ClockSteps == { Fx(3, 100) }

\* the outcomes of the two compileShader calls and of glLinkProgram
ShaderOutcomes == { << TRUE, TRUE, TRUE >>, << FALSE, TRUE, FALSE >> }

\* the keys processInput reads
AllKeys == { "GLFW_KEY_ESCAPE", "GLFW_KEY_F", "GLFW_KEY_LEFT_SHIFT",
             "GLFW_KEY_W", "GLFW_KEY_S", "GLFW_KEY_A", "GLFW_KEY_D",
             "GLFW_KEY_SPACE", "GLFW_KEY_LEFT_CONTROL", "GLFW_KEY_ENTER" }

\* the GL objects main() creates and deletes
SceneObjects == { "shaderProgram", "EBO", "stoneVAO", "stoneVBO", "dirtVAO",
                  "dirtVBO", "grassVAO", "grassVBO" }

Log(ev, arg) == [ev |-> ev, arg |-> arg]

\* glfwInit, the window hints and glfwCreateWindow (src/main.cpp:68-91)
CreateWindow ==
    /\ pc = "start"
    /\ \E created \in BOOLEAN :
         IF created
         THEN /\ glfwLive' = TRUE
              /\ cursorMode' = "GLFW_CURSOR_DISABLED"
              /\ pc' = "glad"
              /\ UNCHANGED ioVars
         ELSE /\ stdout' = Append(stdout, "Failed to create GLFW window")
              /\ glfwLive' = FALSE
              /\ exitCode' = -1
              /\ pc' = "exited"
              /\ UNCHANGED << stderr, cursorMode >>
    /\ UNCHANGED << shouldClose, monitor, polygonMode, keys, title, glObjects,
                    teardowns, enterToggles >>
    /\ UNCHANGED << cameraVars, frameVars, timeVars, envVars, blockVars, fr >>

\* gladLoadGLLoader (src/main.cpp:93-98)
LoadGL ==
    /\ pc = "glad"
    /\ \E loaded \in BOOLEAN :
         IF loaded
         THEN /\ pc' = "setup"
              /\ UNCHANGED ioVars
         ELSE /\ stdout' = Append(stdout, "Failed to initialize GLAD")
              /\ exitCode' = -1
              /\ pc' = "exited"
              /\ UNCHANGED stderr
    /\ UNCHANGED << winVars, cameraVars, frameVars, timeVars, envVars,
                    blockVars, fr >>

\* what compileShader and the link check print (src/main.cpp:136-151, 555-571)
ShaderLog(o) ==
    (IF o[1] THEN << >> ELSE << "ERROR::SHADER::COMPILATION_FAILED" >>)
    \o (IF o[2] THEN << >> ELSE << "ERROR::SHADER::COMPILATION_FAILED" >>)
    \o (IF o[3] THEN << >> ELSE << "ERROR::SHADER::PROGRAM::LINKING_FAILED" >>)

\* depth test, shaders, vertex data, buffers, total_rendered_blocks = 0
\* (src/main.cpp:100-277)
SetupScene ==
    /\ pc = "setup"
    /\ \E o \in ShaderOutcomes : stdout' = stdout \o ShaderLog(o)
    /\ glObjects' = SceneObjects
    /\ total_rendered_blocks' = 0
    /\ pc' = "loop"
    /\ UNCHANGED << exitCode, stderr, glfwLive, shouldClose, cursorMode, monitor,
                    polygonMode, keys, title, teardowns, enterToggles >>
    /\ UNCHANGED << cameraVars, view, projection, chunkY, chunk, boundVAO,
                    drawCalls, frameLog, frames, timeVars, envVars,
                    blockVars, fr >>

\* while (!glfwWindowShouldClose(window)) entered: the per-frame time logic
\* (src/main.cpp:279-285)
BeginFrame ==
    /\ pc = "loop"
    /\ ~shouldClose
    /\ frameBudget > 0
    /\ frameBudget' = frameBudget - 1
    /\ \E d \in ClockSteps :
         /\ now' = now + d
         /\ deltaTime' = SubF(Float(now', Q), lastFrame)
         /\ lastFrame' = Float(now', Q)
    /\ frames' = frames + 1
    /\ frameLog' = << >>
    /\ pc' = "input"
    /\ UNCHANGED << ioVars, winVars, cameraVars, view, projection, chunkY, chunk,
                    boundVAO, total_rendered_blocks, drawCalls, previousSeconds,
                    frameCount, lastFps, budget, event, blockVars, fr >>

\* the camera position after the movement keys of processInput
\* (src/main.cpp:473-486), applied in the order of the code
MovedPos(pos, front, held, dt) ==
    LET speed0 == MulF(FromInt(10), dt)
        speed  == IF "GLFW_KEY_LEFT_SHIFT" \in held THEN MulF(speed0, Two) ELSE speed0
        right  == Normalize(Cross(front, cameraUp))
        p1 == IF "GLFW_KEY_W" \in held THEN VAdd(pos, VScale(speed, front)) ELSE pos
        p2 == IF "GLFW_KEY_S" \in held THEN VSub(p1, VScale(speed, front)) ELSE p1
        p3 == IF "GLFW_KEY_A" \in held THEN VSub(p2, VScale(speed, right)) ELSE p2
        p4 == IF "GLFW_KEY_D" \in held THEN VAdd(p3, VScale(speed, right)) ELSE p3
        p5 == IF "GLFW_KEY_SPACE" \in held THEN VAdd(p4, VScale(speed, cameraUp)) ELSE p4
        p6 == IF "GLFW_KEY_LEFT_CONTROL" \in held THEN VSub(p5, VScale(speed, cameraUp)) ELSE p5
    IN  p6

\* the window's monitor after the Enter check of processInput
\* (src/main.cpp:489-503)
ToggledMonitor(m, held) ==
    IF "GLFW_KEY_ENTER" \in held
    THEN (IF m = "NULL" THEN "primary" ELSE "NULL")
    ELSE m

\* processInput (src/main.cpp:453-504)
ProcessInput ==
    /\ pc = "input"
    /\ cursorMode' = IF "GLFW_KEY_ESCAPE" \in keys THEN "GLFW_CURSOR_NORMAL"
                                                  ELSE "GLFW_CURSOR_DISABLED"
    /\ polygonMode' = IF "GLFW_KEY_F" \in keys THEN "GL_LINE" ELSE "GL_FILL"
    /\ cameraPos' = MovedPos(cameraPos, cameraFront, keys, deltaTime)
    /\ monitor' = ToggledMonitor(monitor, keys)
    /\ enterToggles' = IF monitor' # monitor THEN enterToggles + 1 ELSE enterToggles
    /\ frameLog' = Append(frameLog, Log("input", 0))
    /\ pc' = "render"
    /\ UNCHANGED << ioVars, glfwLive, shouldClose, keys, title, glObjects,
                    teardowns, cameraFront, yaw, pitch, lastX, lastY, fov,
                    firstMouse, view, projection, chunkY, chunk, boundVAO,
                    total_rendered_blocks, drawCalls, frames, timeVars, envVars,
                    blockVars, fr >>

\* (a variant without the statement total_rendered_blocks = 0)
ComputeMatricesNoReset ==
    /\ pc = "render"
    /\ view' = View(cameraPos, cameraFront, cameraUp)
    /\ projection' = Projection(fov)
    /\ drawCalls' = 0
    /\ chunkY' = 0
    /\ frameLog' = Append(frameLog, Log("matrices", 0))
    /\ pc' = "chunks"
    /\ UNCHANGED << ioVars, winVars, cameraVars, chunk, boundVAO, frames,
                    total_rendered_blocks, timeVars, envVars, blockVars, fr >>

\* clear, glUseProgram, view, projection, the uniforms, the chunk counts and
\* total_rendered_blocks = 0 (src/main.cpp:291-323)
ComputeMatrices ==
    /\ pc = "render"
    /\ view' = View(cameraPos, cameraFront, cameraUp)
    /\ projection' = Projection(fov)
    /\ total_rendered_blocks' = 0
    /\ drawCalls' = 0
    /\ chunkY' = 0
    /\ frameLog' = Append(frameLog, Log("matrices", 0))
    /\ pc' = "chunks"
    /\ UNCHANGED << ioVars, winVars, cameraVars, chunk, boundVAO, frames,
                    timeVars, envVars, blockVars, fr >>

\* the vertex array bound for a chunk index (src/main.cpp:344-353)
VAOFor(i) ==
    IF i < stoneChunks THEN "stoneVAO"
    ELSE IF i < stoneChunks + dirtChunks THEN "dirtVAO"
    ELSE "grassVAO"

\* the chunk position handed to the frustum test:
\* glm::vec3(0.0f, chunkY * chunkSize, 0.0f)
ChunkOrigin(i) == << Zero, FromInt(i * chunkSize), Zero >>

\* the frustum test of the chunk loop (src/main.cpp:356)
ChunkVisible(i, viewM, projectionM) ==
    isChunkInViewFrustum(ChunkOrigin(i), viewM, projectionM, FromInt(chunkSize))

\* glm::vec3 blockPos(x * 1.0f, (chunkY * chunkSize + y) * 1.0f, z * 1.0f)
blockPos(i, x, y, z) ==
    << MulF(FromInt(x), One), MulF(FromInt(i * chunkSize + y), One),
       MulF(FromInt(z), One) >>

\* the world positions of the 8 vertices of a block under the model matrix
\* glm::translate(glm::mat4(1.0f), blockPos)
BlockVertices(i, x, y, z) ==
    { VAdd(blockPos(i, x, y, z), vertices[k]) : k \in DOMAIN vertices }

\* one iteration of the chunk loop (src/main.cpp:323-412): the chunk is
\* initialised, its vertex array bound, and it is either skipped by the
\* continue after the frustum test or drawn block by block
ChunkIter ==
    /\ pc = "chunks"
    /\ chunkY < totalChunks
    /\ chunk' = HollowChunk
    /\ boundVAO' = VAOFor(chunkY)
    /\ IF ~ChunkVisible(chunkY, view, projection)
       THEN /\ frameLog' = Append(frameLog, Log("cull", chunkY))
            /\ UNCHANGED << total_rendered_blocks, drawCalls >>
       ELSE /\ total_rendered_blocks' = total_rendered_blocks + HollowRender.blocks
            /\ drawCalls' = drawCalls + HollowRender.draws
            /\ frameLog' = frameLog \o << Log("cull", chunkY), Log("draw", chunkY) >>
    /\ chunkY' = chunkY + 1
    /\ UNCHANGED << pc, ioVars, winVars, cameraVars, view, projection, frames,
                    timeVars, envVars, blockVars, fr >>

\* statsTracker, called after the chunk loop (src/main.cpp:416, 574-600)
StatsTracker ==
    /\ pc = "chunks"
    /\ chunkY = totalChunks
    /\ \E d \in ClockSteps :
         /\ now' = now + d
         /\ IF now' - previousSeconds >= Fx(1, 10)
            THEN /\ lastFps' = FDiv(Fx(frameCount + 1, 1), now' - previousSeconds)
                 /\ title' = << lastFps', total_rendered_blocks >>
                 /\ frameCount' = 0
                 /\ previousSeconds' = now'
            ELSE /\ frameCount' = frameCount + 1
                 /\ UNCHANGED << lastFps, title, previousSeconds >>
    /\ frameLog' = Append(frameLog, Log("stats", total_rendered_blocks))
    /\ pc' = "swap"
    /\ UNCHANGED << ioVars, glfwLive, shouldClose, cursorMode, monitor,
                    polygonMode, keys, glObjects, teardowns, enterToggles,
                    cameraVars, view, projection, chunkY, chunk, boundVAO,
                    total_rendered_blocks, drawCalls, frames, deltaTime,
                    lastFrame >>
    /\ UNCHANGED << envVars, blockVars, fr >>

\* glfwSwapBuffers (src/main.cpp:419)
SwapBuffers ==
    /\ pc = "swap"
    /\ frameLog' = Append(frameLog, Log("present", 0))
    /\ pc' = "poll"
    /\ UNCHANGED << ioVars, winVars, cameraVars, view, projection, chunkY, chunk,
                    boundVAO, total_rendered_blocks, drawCalls, frames, timeVars,
                    envVars, blockVars, fr >>

\* the events glfwPollEvents delivers (src/main.cpp:420): cursor positions in
\* pixels, scroll offsets, and the keys that change
MousePositions == { << 400, 300 >>, << 500, 250 >>, << 400, 20000 >>,
                    << 400, -20000 >> }
ScrollOffsets == { -50, 7, 100 }
ChangingKeys == { "GLFW_KEY_ESCAPE", "GLFW_KEY_LEFT_SHIFT", "GLFW_KEY_W",
                  "GLFW_KEY_ENTER" }

Event(kind, x, y) == [kind |-> kind, x |-> x, y |-> y, seq |-> budget]

\* a key is pressed or released: GLFW updates the state glfwGetKey reports
KeyEvent ==
    /\ pc = "poll"
    /\ budget > 0
    /\ \E k \in ChangingKeys :
         /\ keys' = IF k \in keys THEN keys \ { k } ELSE keys \cup { k }
         /\ enterToggles' = IF k = "GLFW_KEY_ENTER" THEN 0 ELSE enterToggles
         /\ event' = Event("key", 0, 0)
    /\ budget' = budget - 1
    /\ UNCHANGED << pc, ioVars, glfwLive, shouldClose, cursorMode, monitor,
                    polygonMode, title, glObjects, teardowns, cameraVars,
                    frameVars, timeVars, frameBudget, blockVars, fr >>

ClampPitchNoLower(p) ==
    IF LtF(FromInt(89), p) THEN FromInt(89) ELSE p

\* if (pitch > 89.0f) pitch = 89.0f; if (pitch < -89.0f) pitch = -89.0f;
ClampPitch(p) ==
    LET p1 == IF LtF(FromInt(89), p) THEN FromInt(89) ELSE p
    IN  IF LtF(p1, FromInt(-89)) THEN FromInt(-89) ELSE p1

\* mouse_callback (src/main.cpp:507-541)
mouse_callback(xposIn, yposIn) ==
    LET xpos == FromInt(xposIn)
        ypos == FromInt(yposIn)
        lx == IF firstMouse THEN xpos ELSE lastX
        ly == IF firstMouse THEN ypos ELSE lastY
        sensitivity == Float(1, 10)
        xoffset == MulF(SubF(xpos, lx), sensitivity)
        yoffset == MulF(SubF(ly, ypos), sensitivity)
    IN  /\ firstMouse' = FALSE
        /\ lastX' = xpos
        /\ lastY' = ypos
        /\ yaw' = AddF(yaw, xoffset)
        /\ pitch' = ClampPitch(AddF(pitch, yoffset))
        /\ cameraFront' = FrontOf(yaw', pitch')

MouseCallback ==
    /\ pc = "poll"
    /\ budget > 0
    /\ \E pos \in MousePositions :
         /\ mouse_callback(pos[1], pos[2])
         /\ event' = Event("mouse", pos[1], pos[2])
    /\ budget' = budget - 1
    /\ UNCHANGED << pc, ioVars, winVars, cameraPos, fov, frameVars, timeVars,
                    frameBudget, blockVars, fr >>

\* the field of view after scroll_callback (src/main.cpp:544-552)
ScrolledFov(f, yoffset) ==
    LET f1 == IF LeF(One, f) /\ LeF(f, FromInt(90))
              THEN SubF(f, FromInt(yoffset)) ELSE f
        f2 == IF LeF(f1, One) THEN One ELSE f1
    IN  IF LeF(FromInt(90), f2) THEN FromInt(90) ELSE f2

ScrollCallback ==
    /\ pc = "poll"
    /\ budget > 0
    /\ \E yoffset \in ScrollOffsets :
         /\ fov' = ScrolledFov(fov, yoffset)
         /\ event' = Event("scroll", 0, yoffset)
    /\ budget' = budget - 1
    /\ UNCHANGED << pc, ioVars, winVars, cameraPos, cameraFront, yaw, pitch,
                    lastX, lastY, firstMouse, frameVars, timeVars, frameBudget,
                    blockVars, fr >>

\* the user closes the window: GLFW sets the close flag
CloseRequest ==
    /\ pc = "poll"
    /\ ~shouldClose
    /\ shouldClose' = TRUE
    /\ UNCHANGED << pc, ioVars, glfwLive, cursorMode, monitor, polygonMode, keys,
                    title, glObjects, teardowns, enterToggles, cameraVars,
                    frameVars, timeVars, envVars, blockVars, fr >>

\* glfwPollEvents returns: the end of the loop body
PollReturn ==
    /\ pc = "poll"
    /\ pc' = "loop"
    /\ UNCHANGED << ioVars, winVars, cameraVars, frameVars, timeVars, envVars,
                    blockVars, fr >>

LoopExitAlways ==
    /\ pc = "loop"
    /\ pc' = "teardown"
    /\ UNCHANGED << ioVars, winVars, cameraVars, frameVars, timeVars, envVars,
                    blockVars, fr >>

\* the loop condition fails: glfwWindowShouldClose(window) (src/main.cpp:279)
LoopExit ==
    /\ pc = "loop"
    /\ shouldClose
    /\ pc' = "teardown"
    /\ UNCHANGED << ioVars, winVars, cameraVars, frameVars, timeVars, envVars,
                    blockVars, fr >>

\* the glDelete* calls, glfwTerminate and return 0 (src/main.cpp:425-442)
Teardown ==
    /\ pc = "teardown"
    /\ glObjects' = glObjects \ SceneObjects
    /\ glfwLive' = FALSE
    /\ teardowns' = teardowns + 1
    /\ exitCode' = 0
    /\ pc' = "exited"
    /\ UNCHANGED << stdout, stderr, shouldClose, cursorMode, monitor,
                    polygonMode, keys, title, enterToggles, cameraVars,
                    frameVars, timeVars, envVars, blockVars, fr >>

ProgramInit ==
    /\ GlobalsInit
    /\ pc = "start"
    /\ chunk = << >>
    /\ gridS = 0

Init ==
    /\ ProgramInit
    /\ budget = MaxEvents
    /\ frameBudget = MaxFrames

Next ==
    \/ CreateWindow
    \/ LoadGL
    \/ SetupScene
    \/ BeginFrame
    \/ ProcessInput
    \/ ComputeMatrices
    \/ ChunkIter
    \/ StatsTracker
    \/ SwapBuffers
    \/ KeyEvent
    \/ MouseCallback
    \/ ScrollCallback
    \/ CloseRequest
    \/ PollReturn
    \/ LoopExit
    \/ Teardown

Spec == Init /\ [][Next]_vars

\* the program with one frame and MaxCallbacks events in its glfwPollEvents
InitCallbacks ==
    /\ ProgramInit
    /\ budget = MaxCallbacks
    /\ frameBudget = 1

SpecCallbacks == InitCallbacks /\ [][Next]_vars

-----------------------------------------------------------------------------
(* Claims about the whole program.                                         *)

\* the cell lies on the outer shell of an S x S x S grid
OnShell(p, S) == \E a \in 1..3 : p[a] = 0 \/ p[a] = S - 1

\* the grid of dimension chunkSize whose solid cells are the cells of the
\* outer shell
ShellGrid ==
    [x \in 0..(chunkSize - 1) |-> [y \in 0..(chunkSize - 1) |->
        [z \in 0..(chunkSize - 1) |->
            IF OnShell(<< x, y, z >>, chunkSize) THEN 1 ELSE 0]]]

\* the number of solid cells of the shell grid of dimension chunkSize
ShellSolidCount ==
    Cardinality({ p \in AllCells(chunkSize) : OnShell(p, chunkSize) })

\* C3: whenever the chunk loop has initialised the chunk (in any frame, for
\* any chunk index), a cell of its grid is solid iff one of its coordinates
\* is 0 or chunkSize - 1 and air otherwise, and the number of solid cells of
\* that grid is S^3 - (S-2)^3, which is 1352.
C3_HollowShell ==
    chunk # << >> =>
        /\ chunk = ShellGrid
        /\ ShellSolidCount = chunkSize ^ 3 - (chunkSize - 2) ^ 3
        /\ ShellSolidCount = 1352

\* the grass chunk (index 15) of a second frame has been initialised
C3_Witness ==
    /\ frames >= 2
    /\ pc = "chunks"
    /\ chunkY = totalChunks
    /\ boundVAO = "grassVAO"
    /\ chunk # << >>
    /\ chunk[0][7][7] = 1
    /\ chunk[7][7][7] = 0

\* the events of the frame log from position i on are the culls and draws
\* of the chunks k, k + 1, ..., 15, each chunk's cull before its draw
RECURSIVE ChunkEvents(_, _, _)
ChunkEvents(log, i, k) ==
    IF k = totalChunks THEN i
    ELSE IF i > Len(log) \/ log[i] # Log("cull", k) THEN 0
    ELSE IF i + 1 <= Len(log) /\ log[i + 1] = Log("draw", k)
         THEN ChunkEvents(log, i + 2, k + 1)
         ELSE ChunkEvents(log, i + 1, k + 1)

\* C6: a frame that has reached its poll has performed, in this order:
\* input, the view and projection matrices, the chunks 0..15 in ascending
\* order with the cull of a chunk before its draw calls, the stats update,
\* the text overlay draws, and the buffer swap.
C6_FrameStepOrder ==
    pc = "poll" =>
        /\ Len(frameLog) >= 2
        /\ frameLog[1].ev = "input"
        /\ frameLog[2].ev = "matrices"
        /\ LET i == ChunkEvents(frameLog, 3, 0)
           IN  /\ i # 0
               /\ Len(frameLog) = i + 2
               /\ frameLog[i].ev = "stats"
               /\ frameLog[i + 1].ev = "overlay"
               /\ frameLog[i + 2].ev = "present"

\* clamp(v, lo, hi)
Clamp(v, lo, hi) == IF LtF(v, lo) THEN lo ELSE IF LtF(hi, v) THEN hi ELSE v

\* C7: after any sequence of mouse and scroll events from the initial state
\* the pitch is within [-89, 89] and the field of view within [1, 90], and a
\* scroll of delta d sets the field of view to clamp(fov - d, 1, 90).
C7_PitchAndFovClamped ==
    /\ [](/\ LeF(FromInt(-89), pitch) /\ LeF(pitch, FromInt(89))
          /\ LeF(One, fov) /\ LeF(fov, FromInt(90)))
    /\ [][(event' # event /\ event'.kind = "scroll") =>
            fov' = Clamp(SubF(fov, FromInt(event'.y)), One, FromInt(90))]_vars

\* mouse events drove the pitch to its upper limit and scroll events then
\* drove the field of view to its upper limit
C7_Witness ==
    /\ event # << >>
    /\ event.kind = "scroll"
    /\ pitch = FromInt(89)
    /\ fov = FromInt(90)
    /\ ~firstMouse

\* C8: the display mode changes at most once while the Enter key stays held
\* (enterToggles counts the changes of the window's monitor since the last
\* change of the Enter key).
C8_ModeChangesOnlyOnKeyEdges ==
    enterToggles <= 1

\* C9: a run that ended with exit code -1 reported the failure on the
\* standard error stream and never entered the frame loop, and a run that
\* ended with exit code 0 had a successful initialisation and left the loop
\* on the close signal.
C9_FatalInitReportedOnStderr ==
    pc = "exited" =>
        /\ exitCode \in { -1, 0 }
        /\ exitCode = -1 => (stderr # << >> /\ frames = 0 /\ frameLog = << >>)
        /\ exitCode = 0 => (shouldClose /\ glObjects = { } /\ stderr = << >>)

\* the frame log is the log of a finished frame, or no frame was started
FrameComplete ==
    \/ frames = 0 /\ frameLog = << >>
    \/ frameLog # << >> /\ frameLog[Len(frameLog)].ev = "present"

\* C10: the loop is left only with the close signal set and only between
\* two frames; once the signal is set no frame is started; the teardown
\* runs at most once, and a run that returned 0 has run it exactly once,
\* with every GL object deleted and GLFW terminated.
C10_CloseEndsLoopThenTeardownOnce ==
    /\ [](pc = "teardown" => (shouldClose /\ FrameComplete))
    /\ [](teardowns <= 1)
    /\ []((pc = "exited" /\ exitCode = 0) =>
            (/\ shouldClose
             /\ FrameComplete
             /\ teardowns = 1
             /\ glObjects = { }
             /\ ~glfwLive))
    /\ [][shouldClose => (frames' = frames /\ shouldClose')]_vars
    /\ [][pc = "poll" => pc' \in { "poll", "loop" }]_vars

\* the close signal arrived in the poll of the second frame, the loop was
\* left and the program returned 0 after its teardown
C10_Witness ==
    /\ pc = "exited"
    /\ exitCode = 0
    /\ shouldClose
    /\ frames = 2
    /\ teardowns = 1
    /\ glObjects = { }

\* two vectors point in the same direction (to three decimals)
SameDirection(a, b) ==
    \A i \in 1..3 :
        LeF(AbsF(SubF(Normalize(a)[i], Normalize(b)[i])), Float(1, 1000))

\* C11: the first mouse event leaves yaw, pitch and the look direction as
\* they were, seeds lastX/lastY with its position and clears firstMouse;
\* every later mouse event takes its offsets against the position of the
\* event before it.
C11_FirstMouseEventNoJump ==
    [][(event' # event /\ event'.kind = "mouse") =>
         /\ lastX' = FromInt(event'.x)
         /\ lastY' = FromInt(event'.y)
         /\ ~firstMouse'
         /\ IF firstMouse
            THEN /\ yaw' = yaw
                 /\ pitch' = pitch
                 /\ SameDirection(cameraFront', cameraFront)
            ELSE /\ yaw' = AddF(yaw, MulF(SubF(FromInt(event'.x), lastX),
                                          Float(1, 10)))
                 /\ pitch' = Clamp(AddF(pitch, MulF(SubF(lastY, FromInt(event'.y)),
                                                    Float(1, 10))),
                                   FromInt(-89), FromInt(89))]_vars

\* the number of chunks of the frame that were drawn, and the stats updates
\* of the frame
DrawnChunks(log) == { i \in DOMAIN log : log[i].ev = "draw" }
StatsUpdates(log) == { i \in DOMAIN log : log[i].ev = "stats" }

\* C12: in every iteration of the chunk loop, a chunk the frustum test
\* rejects issues no draw call and adds nothing to total_rendered_blocks,
\* and a chunk that passes is drawn and adds 1352; during the chunk loop the
\* counter is 1352 times the number of chunks of this frame that passed, and
\* the value handed to statsTracker is 1352 times the number of chunks that
\* passed in the same frame, between 0 and 16 * 1352.
C12_BlocksCountedPerPassingChunk ==
    /\ [][(pc = "chunks" /\ chunkY' = chunkY + 1) =>
            IF ChunkVisible(chunkY, view, projection)
            THEN /\ total_rendered_blocks' = total_rendered_blocks + 1352
                 /\ drawCalls' > drawCalls
                 /\ Cardinality(DrawnChunks(frameLog'))
                       = Cardinality(DrawnChunks(frameLog)) + 1
            ELSE /\ total_rendered_blocks' = total_rendered_blocks
                 /\ drawCalls' = drawCalls
                 /\ DrawnChunks(frameLog') = DrawnChunks(frameLog)]_vars
    /\ [](pc = "chunks" =>
            total_rendered_blocks = 1352 * Cardinality(DrawnChunks(frameLog)))
    /\ [](pc \in { "swap", "poll" } =>
            /\ Cardinality(StatsUpdates(frameLog)) = 1
            /\ \A i \in StatsUpdates(frameLog) :
                 /\ frameLog[i].arg = 1352 * Cardinality(DrawnChunks(frameLog))
                 /\ frameLog[i].arg \in 0..(totalChunks * 1352))

\* the stats update of a second frame in which some chunks passed the
\* frustum test and some did not
C12_Witness ==
    /\ pc = "swap"
    /\ frames >= 2
    /\ Cardinality(DrawnChunks(frameLog)) \in 1..(totalChunks - 1)
    /\ total_rendered_blocks = 1352 * Cardinality(DrawnChunks(frameLog))

\* the point lies in the axis-aligned box spanned by the corners
InBox(v, corners) ==
    \A a \in 1..3 :
        /\ \E i \in DOMAIN corners : LeF(corners[i][a], v[a])
        /\ \E i \in DOMAIN corners : LeF(v[a], corners[i][a])

\* C13: for every chunk drawn in the frame, the box the frustum test was
\* given (the corners of the chunk position and chunkSize) contains every
\* vertex of every block drawn for that chunk.
C13_CullBoxContainsGeometry ==
    \A e \in DrawnChunks(frameLog) :
        \A p \in SolidCells(chunk, chunkSize) :
            \A v \in BlockVertices(frameLog[e].arg, p[1], p[2], p[3]) :
                InBox(v, Corners(ChunkOrigin(frameLog[e].arg), FromInt(chunkSize)))
====
